---- MODULE Spec2Model ----
(***************************************************************************)
(* A model of the ray-tracing core of sol-rs: SceneDescription             *)
(* (src/src/ray/mod.rs), the acceleration-structure instance records       *)
(* (src/src/ray/acceleration.rs) and the shader binding table              *)
(* (src/src/ray/sbt.rs).                                                   *)
(*                                                                         *)
(* glam::Mat4 is modelled by 3x3 integer matrices (homogeneous 2D affine   *)
(* maps) in glam's column-major storage: M[c][r] is column c, row r.  The  *)
(* transforms used are unimodular, so inverse() is exact.                  *)
(***************************************************************************)
EXTENDS Integers, Sequences, FiniteSets, TLC

VARIABLES
    pc,                 \* "input" | "ready" | "panicked"
    scene,              \* the loaded scene: a sequence of meshes
    scene_description,  \* the SceneDescription (NoScene before from_scene returns)
    panic,              \* the panic that aborted the program, or "none"
    last_call,          \* the last SceneDescription method called, with its arguments
    calls,              \* the number of method calls made after construction
    device,             \* the Vulkan calls made so far, in order
    steps,              \* what from_meshes did, in order: its calls, the upload, the return
    properties,         \* the device's ray-tracing properties
    info,               \* the ShaderBindingTableInfo under construction
    sbt,                \* <<the ShaderBindingTable>> once built, <<>> before
    args,               \* the arguments of InstanceDescriptor::new
    descriptor,         \* <<the InstanceDescriptor>> once built, <<>> before
    caller,             \* a caller using BLAS and TLAS directly: its objects
    mesh_sections,      \* the meshes given to from_meshes, as their sections
    material_buffer,    \* the material buffer given to from_meshes: <<>> is None
    published,          \* <<the descriptor lists>> once from_meshes ran, <<>> before
    app,                \* the AppData of the path-tracing example, and where it is
    renderer,           \* the AppRenderer: active frame, fences, timestamp queries
    gpu,                \* the command buffers submitted to the queue and not finished
    host_write,         \* the last write of the CPU into the TLAS instance buffer
    geo_instances,      \* the Vec<GeometryInstance> given to BLAS::new
    blas_built,         \* <<what BLAS::new did>> once called, <<>> before
    semaphore_pool,     \* a SemaphorePool
    requested,          \* the semaphores it returned since the last reset, and the calls made
    layout,             \* a DescriptorSetLayout with its pool
    handed              \* the last call made on it, with the set it returned

sceneVars == <<pc, scene, scene_description, panic, last_call, calls, device, steps>>
sbtVars == <<properties, info, sbt>>
packVars == <<args, descriptor>>
callerVars == <<caller>>
descVars == <<mesh_sections, material_buffer, published>>
appVars == <<app, renderer, gpu, host_write>>
geoVars == <<geo_instances, blas_built>>
poolVars == <<semaphore_pool, requested>>
layoutVars == <<layout, handed>>
vars == <<sceneVars, sbtVars, packVars, callerVars, descVars, appVars, geoVars, poolVars, layoutVars>>

(* ------------------------------ bounds --------------------------------- *)

MaxMeshes == 2
MaxPrimitives == 4
MaxCalls == 2

(* ----------------------------- glam::Mat4 ------------------------------ *)

Mat4_identity == << <<1, 0, 0>>, <<0, 1, 0>>, <<0, 0, 1>> >>
\* translation by (1, 0): the last column holds the offset
TranslateX == << <<1, 0, 0>>, <<0, 1, 0>>, <<1, 0, 1>> >>
\* a shear: x' = x + y
ShearXY == << <<1, 0, 0>>, <<1, 1, 0>>, <<0, 0, 1>> >>

\* the transforms given to blas_transform
Transforms == {TranslateX, ShearXY}
SceneTransforms == {Mat4_identity, TranslateX}
TransformList == <<Mat4_identity, TranslateX, ShearXY>>

transpose(m) == [c \in 1..3 |-> [r \in 1..3 |-> m[r][c]]]

Others(i) == IF i = 1 THEN <<2, 3>> ELSE IF i = 2 THEN <<1, 3>> ELSE <<1, 2>>

\* the minor of the entry in row r, column c
Minor(m, r, c) ==
    LET rs == Others(r)
        cs == Others(c)
    IN  m[cs[1]][rs[1]] * m[cs[2]][rs[2]] - m[cs[2]][rs[1]] * m[cs[1]][rs[2]]

Sign(r, c) == IF (r + c) % 2 = 0 THEN 1 ELSE -1

determinant(m) ==
    m[1][1] * Minor(m, 1, 1) - m[2][1] * Minor(m, 1, 2) + m[3][1] * Minor(m, 1, 3)

\* adjugate over determinant; the determinant of a unimodular matrix is 1 or -1
inverse(m) ==
    LET det == determinant(m)
    IN  [c \in 1..3 |-> [r \in 1..3 |-> det * Sign(r, c) * Minor(m, c, r)]]

(* ------------------------------ the scene ------------------------------ *)

NoBuffer == [element_count |-> 0, data |-> <<>>]

NoScene == [blas |-> <<>>,
            tlas |-> [handle |-> 0, instance_buffer |-> NoBuffer],
            instances |-> <<>>,
            instances_buffer |-> NoBuffer,
            blas_to_instances |-> <<>>]

Mesh == [primitive_sections : 0..MaxPrimitives, transform : SceneTransforms]

RECURSIVE SeqsUpTo(_, _)
SeqsUpTo(S, n) ==
    IF n = 0 THEN {<<>>}
    ELSE LET shorter == SeqsUpTo(S, n - 1)
         IN  shorter \cup {Append(s, x) : s \in {t \in shorter : Len(t) = n - 1}, x \in S}

RECURSIVE PrimitiveCount(_)
PrimitiveCount(meshes) ==
    IF meshes = <<>> THEN 0
    ELSE meshes[1].primitive_sections + PrimitiveCount(Tail(meshes))

\* the scenes tried: at most MaxMeshes meshes and MaxPrimitives primitive
\* sections; a mesh without primitive sections is left unmoved, as its transform
\* is never read
Scenes ==
    {s \in SeqsUpTo(Mesh, MaxMeshes) :
        /\ PrimitiveCount(s) <= MaxPrimitives
        /\ \A m \in 1..Len(s) :
              s[m].primitive_sections = 0 => s[m].transform = Mat4_identity}

(* ------------------------- InstanceDescriptor -------------------------- *)

RECURSIVE BitAnd(_, _)
BitAnd(a, b) ==
    IF a = 0 \/ b = 0 THEN 0
    ELSE (IF a % 2 = 1 /\ b % 2 = 1 THEN 1 ELSE 0) + 2 * BitAnd(a \div 2, b \div 2)

RECURSIVE BitOr(_, _)
BitOr(a, b) ==
    IF a = 0 THEN b
    ELSE IF b = 0 THEN a
    ELSE (IF a % 2 = 1 \/ b % 2 = 1 THEN 1 ELSE 0) + 2 * BitOr(a \div 2, b \div 2)

\* A u32 is kept as two limbs, hi (bits 24..31) and lo (bits 0..23): its value
\* is hi * 2^24 + lo, which TLC's signed 32-bit integers cannot hold.
U32(hi, lo) == [hi |-> hi, lo |-> lo]

\* a small number as a u32 (`as u32`)
AsU32(n) == U32(0, n)

And32(a, b) == U32(BitAnd(a.hi, b.hi), BitAnd(a.lo, b.lo))
Or32(a, b) == U32(BitOr(a.hi, b.hi), BitOr(a.lo, b.lo))
\* << 24: bits 0..7 move to bits 24..31, the bits shifted out are dropped
Shl24(a) == U32(a.lo % 256, 0)
\* >> 24
Shr24(a) == U32(0, a.hi)

\* 0x00ffffff
LOW_24_BITS == U32(0, 16777215)

\* the id OR-ed in without the 24-bit mask
set_id_NoMask(self, id) ==
    [self EXCEPT !.instance_id_and_mask = Or32(@, id)]

set_id(self, id) ==
    [self EXCEPT !.instance_id_and_mask = Or32(@, And32(id, LOW_24_BITS))]

\* a mask OR-ed in without the shift
set_mask_NoShift(self, mask) ==
    [self EXCEPT !.instance_id_and_mask = Or32(@, AsU32(mask))]

set_mask(self, mask) ==
    [self EXCEPT !.instance_id_and_mask = Or32(@, Shl24(AsU32(mask)))]

set_offset(self, offset) ==
    [self EXCEPT !.instance_offset_and_flags = Or32(@, And32(offset, LOW_24_BITS))]

set_flags(self, flags) ==
    [self EXCEPT !.instance_offset_and_flags = Or32(@, Shl24(flags))]

\* the id and the offset taken for each other
InstanceDescriptor_new_Swapped(transform, id, mask, offset, flags, acceleration_handle) ==
    LET instance == [transform |-> transform,
                     instance_id_and_mask |-> AsU32(0),
                     instance_offset_and_flags |-> AsU32(0),
                     acceleration_handle |-> acceleration_handle]
    IN  set_flags(set_offset(set_mask(set_id(instance, offset), mask), id), flags)

InstanceDescriptor_new(transform, id, mask, offset, flags, acceleration_handle) ==
    LET instance == [transform |-> transform,
                     instance_id_and_mask |-> AsU32(0),
                     instance_offset_and_flags |-> AsU32(0),
                     acceleration_handle |-> acceleration_handle]
    IN  set_flags(set_offset(set_mask(set_id(instance, id), mask), offset), flags)

(* ------------------------------- BLAS ---------------------------------- *)

\* BLAS::new: the driver hands out a fresh structure handle
BLAS_new(handle, transform) ==
    [handle |-> handle, transform |-> transform, hit_group_index |-> 0]

set_transform(self, transform) == [self EXCEPT !.transform = transform]

(* ------------------------------- TLAS ---------------------------------- *)

TRIANGLE_CULL_DISABLE_KHR == 1

\* the device handle the driver reports for a structure
get_acceleration_structure_handle(handle) == 1000 + handle

\* the floats taken from the matrix as glam stores it, the transpose undone
Transmute_ColumnMajor(transposed) == transpose(transposed)[1] \o transpose(transposed)[2]

\* transmute_copy of the transposed matrix to [f32; 12]: the leading floats of
\* its column-major storage, all columns but the last
Transmute(transposed) == transposed[1] \o transposed[2]

\* the InstanceDescriptor list TLAS::generate writes into the instance buffer
RECURSIVE generate_instances(_, _)
generate_instances(blas, i) ==
    IF i >= Len(blas) THEN <<>>
    ELSE LET b == blas[i + 1]
         IN  <<InstanceDescriptor_new(Transmute(transpose(b.transform)), AsU32(i), 255,
                                      AsU32(b.hit_group_index),
                                      AsU32(TRIANGLE_CULL_DISABLE_KHR),
                                      get_acceleration_structure_handle(b.handle))>>
             \o generate_instances(blas, i + 1)

Buffer_update(self, data) == [self EXCEPT !.data = data]

TLAS_generate(self, blas) ==
    [self EXCEPT !.instance_buffer = Buffer_update(@, generate_instances(blas, 0))]

\* TLAS::new; Buffer::new asserts a non-zero device size
TLAS_new(handle, blas) ==
    TLAS_generate([handle |-> handle,
                   accel_struct_flags |-> {"ALLOW_UPDATE"},
                   instance_buffer |-> [element_count |-> Len(blas), data |-> <<>>]],
                  blas)

(* ------------------------ the Vulkan calls made ------------------------ *)

\* vk::AccelerationStructureKHR::null()
NullHandle == 0

\* ACCELERATION_STRUCTURE_READ_KHR | ACCELERATION_STRUCTURE_WRITE_KHR
AS_READ_WRITE == {"ACCELERATION_STRUCTURE_READ_KHR", "ACCELERATION_STRUCTURE_WRITE_KHR"}

create_acceleration_structure(ty, flags, instance_count, handle) ==
    [call |-> "create_acceleration_structure", ty |-> ty, flags |-> flags,
     instance_count |-> instance_count, handle |-> handle]

bind_acceleration_structure_memory(handle) ==
    [call |-> "bind_acceleration_structure_memory", acceleration_structure |-> handle]

cmd_build_acceleration_structure(cmd, ty, flags, instance_count, update, dst, src) ==
    [call |-> "cmd_build_acceleration_structure", cmd |-> cmd, ty |-> ty,
     flags |-> flags, instance_count |-> instance_count, update |-> update,
     dst |-> dst, src |-> src]

cmd_pipeline_barrier(cmd, src_access_mask, dst_access_mask) ==
    [call |-> "cmd_pipeline_barrier", cmd |-> cmd,
     src_access_mask |-> src_access_mask, dst_access_mask |-> dst_access_mask]

\* BLAS::new without the barrier after the build
BLAS_new_calls_NoBarrier(cmd, handle) ==
    << create_acceleration_structure("BOTTOM_LEVEL", {"PREFER_FAST_TRACE"}, 0, handle),
       bind_acceleration_structure_memory(handle),
       cmd_build_acceleration_structure(cmd, "BOTTOM_LEVEL", {"PREFER_FAST_TRACE"}, 0,
                                        FALSE, handle, NullHandle) >>

\* the calls BLAS::new makes: create_accel_struct, bind the memory, record the
\* build into cmd, record the barrier
BLAS_new_calls(cmd, handle) ==
    << create_acceleration_structure("BOTTOM_LEVEL", {"PREFER_FAST_TRACE"}, 0, handle),
       bind_acceleration_structure_memory(handle),
       cmd_build_acceleration_structure(cmd, "BOTTOM_LEVEL", {"PREFER_FAST_TRACE"}, 0,
                                        FALSE, handle, NullHandle),
       cmd_pipeline_barrier(cmd, AS_READ_WRITE, AS_READ_WRITE) >>

\* TLAS::generate binding the memory on every call, update or not
TLAS_generate_calls_Rebind(self, cmd, blas, previous, update_only) ==
    << bind_acceleration_structure_memory(self.handle),
       cmd_build_acceleration_structure(cmd, "TOP_LEVEL", self.accel_struct_flags,
                                        Len(blas), update_only, self.handle, previous),
       cmd_pipeline_barrier(cmd, AS_READ_WRITE, AS_READ_WRITE) >>

\* the calls TLAS::generate makes after it has written the instance buffer
TLAS_generate_calls(self, cmd, blas, previous, update_only) ==
    (IF ~update_only THEN << bind_acceleration_structure_memory(self.handle) >>
     ELSE <<>>)
    \o << cmd_build_acceleration_structure(cmd, "TOP_LEVEL", self.accel_struct_flags,
                                           Len(generate_instances(blas, 0)),
                                           update_only, self.handle, previous),
          cmd_pipeline_barrier(cmd, AS_READ_WRITE, AS_READ_WRITE) >>

\* the calls TLAS::new makes; it stops at Buffer::new's assertion when blas is
\* empty
TLAS_new_calls(cmd, handle, blas) ==
    << create_acceleration_structure("TOP_LEVEL", {"ALLOW_UPDATE"}, Len(blas), handle) >>
    \o (IF Len(blas) = 0 THEN <<>>
        ELSE TLAS_generate_calls(TLAS_new(handle, blas), cmd, blas, NullHandle, FALSE))

\* Context::begin_single_time_cmd
begin_single_time_cmd(cmd) ==
    << [call |-> "allocate_command_buffers", cmd |-> cmd],
       [call |-> "begin_command_buffer", cmd |-> cmd] >>

\* the command buffer ended and freed, never submitted
end_single_time_cmd_NoSubmit(cmd) ==
    << [call |-> "end_command_buffer", cmd |-> cmd],
       [call |-> "free_command_buffers", cmd |-> cmd] >>

\* Context::end_single_time_cmd
end_single_time_cmd(cmd) ==
    << [call |-> "end_command_buffer", cmd |-> cmd],
       [call |-> "queue_submit", cmd |-> cmd],
       [call |-> "queue_wait_idle"],
       [call |-> "free_command_buffers", cmd |-> cmd] >>

(* --------------------------- SceneDescription -------------------------- *)

\* the inverse left out
update_transform_NoInverse(self, transform) ==
    [self EXCEPT !.transform = transform, !.transform_it = transpose(transform)]

update_transform(self, transform) ==
    [self EXCEPT !.transform = transform,
                 !.transform_it = transpose(inverse(transform))]

\* the command buffer begin_single_time_cmd allocates
SingleTimeCmd == "single_time_cmd"

\* from_meshes before its loop: the command buffer begun, the vectors empty
LoopStart ==
    [blas |-> <<>>, instances |-> <<>>, blas_to_instances |-> <<>>,
     device |-> begin_single_time_cmd(SingleTimeCmd), cmd |-> SingleTimeCmd]

\* HashMap::insert
Insert(map, key, value) ==
    [k \in (DOMAIN map) \cup {key} |-> IF k = key THEN value ELSE map[k]]

\* the body of the loop over mesh.primitive_sections, for mesh i (from 0)
RECURSIVE ForPrimitives(_, _, _, _)
ForPrimitives(acc, i, transform, remaining) ==
    IF remaining = 0 THEN acc
    ELSE LET instance == [id |-> Len(acc.instances),
                          transform |-> transform,
                          transform_it |-> transpose(inverse(transform))]
             instance_indices == <<instance.id>>
         IN  ForPrimitives(
                 [blas |-> Append(acc.blas, BLAS_new(Len(acc.blas) + 1, transform)),
                  instances |-> Append(acc.instances, instance),
                  blas_to_instances |-> Insert(acc.blas_to_instances, i, instance_indices),
                  device |-> acc.device \o BLAS_new_calls(acc.cmd, Len(acc.blas) + 1),
                  cmd |-> acc.cmd],
                 i, transform, remaining - 1)

\* meshes.iter().enumerate().for_each
RECURSIVE ForMeshes(_, _, _)
ForMeshes(acc, meshes, i) ==
    IF i >= Len(meshes) THEN acc
    ELSE ForMeshes(ForPrimitives(acc, i, meshes[i + 1].transform,
                                 meshes[i + 1].primitive_sections),
                   meshes, i + 1)

\* Buffer::from_data
Buffer_from_data(data) == [element_count |-> Len(data), data |-> data]

\* one BLAS and one SceneInstance per mesh instead of per primitive section
from_meshes_PerMesh(meshes) ==
    LET clipped == [m \in 1..Len(meshes) |->
                       [meshes[m] EXCEPT !.primitive_sections = IF @ > 1 THEN 1 ELSE @]]
        acc == ForMeshes(LoopStart, clipped, 0)
    IN  [blas |-> acc.blas,
         tlas |-> TLAS_new(Len(acc.blas) + 1, acc.blas),
         instances |-> acc.instances,
         instances_buffer |-> Buffer_from_data(acc.instances),
         blas_to_instances |-> acc.blas_to_instances]

from_meshes(meshes) ==
    LET acc == ForMeshes(LoopStart, meshes, 0)
    IN  [blas |-> acc.blas,
         tlas |-> TLAS_new(Len(acc.blas) + 1, acc.blas),
         instances |-> acc.instances,
         instances_buffer |-> Buffer_from_data(acc.instances),
         blas_to_instances |-> acc.blas_to_instances]

\* the assertion that stops from_meshes: TLAS::new asks Buffer::new for an
\* instance buffer of size_of::<InstanceDescriptor>() * blas.len() bytes
from_meshes_panic(meshes) ==
    IF PrimitiveCount(meshes) = 0 THEN "Buffer::new: device_size == 0" ELSE "none"

\* from_meshes with TLAS::new called before the loop over the meshes
from_meshes_calls_TlasFirst(meshes) ==
    LET acc == ForMeshes(LoopStart, meshes, 0)
        built == SubSeq(acc.device, Len(LoopStart.device) + 1, Len(acc.device))
    IN  LoopStart.device
        \o TLAS_new_calls(acc.cmd, Len(acc.blas) + 1, acc.blas)
        \o built
        \o (IF from_meshes_panic(meshes) = "none" THEN end_single_time_cmd(acc.cmd)
            ELSE <<>>)

\* the Vulkan calls from_meshes makes, in order: begin_single_time_cmd, one
\* BLAS::new per primitive section, TLAS::new, end_single_time_cmd
from_meshes_calls(meshes) ==
    LET acc == ForMeshes(LoopStart, meshes, 0)
    IN  acc.device
        \o TLAS_new_calls(acc.cmd, Len(acc.blas) + 1, acc.blas)
        \o (IF from_meshes_panic(meshes) = "none" THEN end_single_time_cmd(acc.cmd)
            ELSE <<>>)

\* Buffer::from_data with cpu_to_gpu memory: the buffer created, then written
\* through Buffer::update
Buffer_from_data_steps(name) ==
    << [call |-> "create_buffer", buffer |-> name],
       [call |-> "Buffer::update", buffer |-> name] >>

\* from_meshes with the SceneInstance buffer made before end_single_time_cmd
from_meshes_steps_UploadFirst(meshes) ==
    LET acc == ForMeshes(LoopStart, meshes, 0)
    IN  acc.device
        \o TLAS_new_calls(acc.cmd, Len(acc.blas) + 1, acc.blas)
        \o (IF from_meshes_panic(meshes) = "none"
            THEN Buffer_from_data_steps("instances_buffer")
                 \o end_single_time_cmd(acc.cmd) \o << [call |-> "return"] >>
            ELSE <<>>)

\* from_meshes from its first statement to its return: the Vulkan calls, then
\* Buffer::from_data for the SceneInstance records, then the return; a panic
\* ends it where it happens
from_meshes_steps(meshes) ==
    from_meshes_calls(meshes)
    \o (IF from_meshes_panic(meshes) = "none"
        THEN Buffer_from_data_steps("instances_buffer") \o << [call |-> "return"] >>
        ELSE <<>>)

\* for instance_index in &self.blas_to_instances[&index]
RECURSIVE UpdateInstances(_, _, _)
UpdateInstances(instances, indices, transform) ==
    IF indices = <<>> THEN instances
    ELSE UpdateInstances(
             [instances EXCEPT ![indices[1] + 1] = update_transform(@, transform)],
             Tail(indices), transform)

\* a blas_transform that also uploads the SceneInstance records
blas_transform_Upload(st, transform, index) ==
    IF st.panic # "none" THEN st
    ELSE IF index >= Len(st.self.blas) \/ index \notin DOMAIN st.self.blas_to_instances
    THEN [st EXCEPT !.panic = "blas: index out of bounds"]
    ELSE LET instances1 == UpdateInstances(st.self.instances,
                                           st.self.blas_to_instances[index], transform)
         IN  [self |-> [st.self EXCEPT
                           !.blas[index + 1] = set_transform(@, transform),
                           !.instances = instances1,
                           !.instances_buffer = Buffer_update(@, instances1)],
              panic |-> "none"]

\* blas_transform on the pair (SceneDescription, panic); a panic ends the call
blas_transform(st, transform, index) ==
    IF st.panic # "none" THEN st
    ELSE IF index >= Len(st.self.blas)
    THEN [st EXCEPT !.panic = "blas: index out of bounds"]
    ELSE LET blas1 == [st.self.blas EXCEPT ![index + 1] = set_transform(@, transform)]
         IN  IF index \notin DOMAIN st.self.blas_to_instances
             THEN [self |-> [st.self EXCEPT !.blas = blas1],
                   panic |-> "blas_to_instances: key not found"]
             ELSE [self |-> [st.self EXCEPT
                                !.blas = blas1,
                                !.instances = UpdateInstances(
                                    @, st.self.blas_to_instances[index], transform)],
                   panic |-> "none"]

RECURSIVE blas_transforms_from(_, _, _)
blas_transforms_from(st, transforms, index) ==
    IF index >= Len(transforms) THEN st
    ELSE blas_transforms_from(blas_transform(st, transforms[index + 1], index),
                              transforms, index + 1)

blas_transforms(st, transforms) == blas_transforms_from(st, transforms, 0)

\* a refit that makes a new top-level structure instead
tlas_regenerate_Rebuild(self) ==
    [self EXCEPT !.tlas = TLAS_new(@.handle + 1, self.blas)]

tlas_regenerate(self) == [self EXCEPT !.tlas = TLAS_generate(@, self.blas)]

\* the calls of self.tlas.generate(cmd, &self.blas, self.tlas.handle(), true)
tlas_regenerate_calls(self, cmd) ==
    TLAS_generate_calls(self.tlas, cmd, self.blas, self.tlas.handle, TRUE)

\* an update that rewrites the TLAS instance buffer as well
update_AlsoTlas(self) ==
    [self EXCEPT !.instances_buffer = Buffer_update(@, self.instances),
                 !.tlas = TLAS_generate(@, self.blas)]

update(self) ==
    [self EXCEPT !.instances_buffer = Buffer_update(@, self.instances)]

(* ------------------------- ShaderBindingTable -------------------------- *)

Not32(a) == U32(255 - a.hi, 16777215 - a.lo)

\* (x + (a - 1)) & !(a - 1), for operands below 2^24
align_up(x, a) == And32(AsU32(x + (a - 1)), Not32(AsU32(a - 1))).lo

ShaderBindingTableInfo_default ==
    [raygen_indices |-> <<>>, miss_indices |-> <<>>, hit_group_indices |-> <<>>]

raygen(self, index) == [self EXCEPT !.raygen_indices = Append(@, index)]
miss(self, index) == [self EXCEPT !.miss_indices = Append(@, index)]
hitgroup(self, index) == [self EXCEPT !.hit_group_indices = Append(@, index)]

raygen_count(self) == Len(self.miss_indices)
miss_count(self) == Len(self.raygen_indices)
\* the hit groups counted up to the last index registered
hitgroup_count_ByIndex(self) ==
    IF self.hit_group_indices = <<>> THEN 0
    ELSE self.hit_group_indices[Len(self.hit_group_indices)] + 1

hitgroup_count(self) == Len(self.hit_group_indices)
get_total_group_count(self) == raygen_count(self) + miss_count(self) + hitgroup_count(self)

\* byte j (from 0) of the opaque handle of shader group g: never zero
HandleByte(g, j) == ((g * 37 + j * 11) % 255) + 1

\* get_ray_tracing_shader_group_handles(pipeline, 0, group_count, ..)
get_ray_tracing_shader_group_handles(group_count, handle_size) ==
    [p \in 1..(group_count * handle_size) |->
        HandleByte((p - 1) \div handle_size, (p - 1) % handle_size)]

\* the closure create_binding_table: None is <<>>, Some(buffer) is <<buffer>>
create_binding_table(group_handles, shader_group_handle_size, prog_size, address, entry_offset, entry_count) ==
    IF 0 = entry_count THEN <<>>
    ELSE LET sbt_data ==
                 [p \in 1..(entry_count * prog_size) |->
                     LET dst == (p - 1) \div prog_size
                         at == (p - 1) % prog_size
                         src == dst + entry_offset
                     IN  IF at < shader_group_handle_size
                         THEN group_handles[src * shader_group_handle_size + at + 1]
                         ELSE 0]
         IN  << [device_address |-> address, data |-> sbt_data] >>

\* buffer.as_ref().map(|b| b.get_device_address()).unwrap_or(0)
AddressOr0(buffer) == IF buffer = <<>> THEN 0 ELSE buffer[1].device_address

\* the address the allocator gives the n-th buffer it creates
DeviceAddress(n) == 4096 * n

Created(buffer) == IF buffer = <<>> THEN 0 ELSE 1

ShaderBindingTable_new(props, sbt_info) ==
    LET shader_group_handle_size == props.shader_group_handle_size
        group_count == get_total_group_count(sbt_info)
        group_handles ==
            get_ray_tracing_shader_group_handles(group_count, shader_group_handle_size)
        prog_size == shader_group_handle_size
        raygen_sbt_buffer ==
            create_binding_table(group_handles, shader_group_handle_size, prog_size,
                                 DeviceAddress(1), 0, raygen_count(sbt_info))
        miss_sbt_buffer ==
            create_binding_table(group_handles, shader_group_handle_size, prog_size,
                                 DeviceAddress(1 + Created(raygen_sbt_buffer)),
                                 raygen_count(sbt_info), miss_count(sbt_info))
        hit_sbt_buffer ==
            create_binding_table(group_handles, shader_group_handle_size, prog_size,
                                 DeviceAddress(1 + Created(raygen_sbt_buffer)
                                                 + Created(miss_sbt_buffer)),
                                 raygen_count(sbt_info) + miss_count(sbt_info),
                                 hitgroup_count(sbt_info))
    IN  [raygen_sbt_address |-> [device_address |-> AddressOr0(raygen_sbt_buffer),
                                 stride |-> prog_size,
                                 size |-> prog_size * raygen_count(sbt_info)],
         raygen_sbt_buffer |-> raygen_sbt_buffer,
         miss_sbt_address |-> [device_address |-> AddressOr0(miss_sbt_buffer),
                               stride |-> prog_size,
                               size |-> prog_size * miss_count(sbt_info)],
         miss_sbt_buffer |-> miss_sbt_buffer,
         hit_sbt_address |-> [device_address |-> AddressOr0(hit_sbt_buffer),
                              stride |-> prog_size,
                              size |-> prog_size * hitgroup_count(sbt_info)],
         hit_sbt_buffer |-> hit_sbt_buffer,
         callable_sbt_address |-> [device_address |-> 0, stride |-> 0, size |-> 0],
         callable_sbt_buffer |-> <<>>]

(* ------------------------- DescriptorSetLayout ------------------------- *)

\* DescriptorSetLayout::new: no set cached, none allocated from the pool; pool
\* holds the sets allocated from it and not freed; max_sets is large enough
\* for one set per info
DescriptorSetLayout_new == [sets |-> <<>>, pool |-> {}, allocated |-> 0]

\* get_or_create: the layout after the call and the set returned
get_or_create(self, set_info) ==
    IF set_info \in DOMAIN self.sets
    THEN [layout |-> self, set |-> self.sets[set_info]]
    ELSE LET result == [handle |-> self.allocated + 1]
         IN  [layout |-> [self EXCEPT !.sets = Insert(@, set_info, result),
                                      !.pool = @ \cup {result.handle},
                                      !.allocated = @ + 1],
              set |-> result]

\* reset_pool: reset_descriptor_pool frees every set allocated from the pool
reset_pool(self) == [self EXCEPT !.pool = {}]

NoneHanded == [op |-> "none", calls |-> 0, resets |-> 0]

(* ---------------------------- SemaphorePool ---------------------------- *)

SemaphorePool_new == [semaphores |-> <<>>, active_count |-> 0]

\* request_semaphore: the pool after the call and the semaphore returned;
\* created is the handle create_semaphore gives if it is called
request_semaphore(self, created) ==
    IF self.active_count < Len(self.semaphores)
    THEN [pool |-> [self EXCEPT !.active_count = self.active_count + 1],
          semaphore |-> self.semaphores[self.active_count + 1]]
    ELSE [pool |-> [self EXCEPT !.semaphores = Append(@, created)],
          semaphore |-> created]

SemaphorePool_reset(self) == [self EXCEPT !.active_count = 0]

NoRequests == [semaphores |-> <<>>, calls |-> 0]

(* --------------------- SceneDescription: actions ----------------------- *)

NoCall == [op |-> "none"]

SceneIdle ==
    /\ pc = "idle"
    /\ scene = <<>>
    /\ scene_description = NoScene
    /\ panic = "none"
    /\ last_call = NoCall
    /\ calls = 0
    /\ device = <<>>
    /\ steps = <<>>

SbtIdle ==
    /\ properties = [shader_group_handle_size |-> 0, shader_group_base_alignment |-> 0]
    /\ info = ShaderBindingTableInfo_default
    /\ sbt = <<>>

PackIdle ==
    /\ args = [id |-> AsU32(0), mask |-> 0, offset |-> AsU32(0), flags |-> AsU32(0)]
    /\ descriptor = <<>>

\* a caller that has made no call
NoCaller == [begun |-> 0, recording |-> <<>>, blas |-> <<>>, tlas |-> <<>>, calls |-> 0]

CallerIdle == caller = NoCaller

DescIdle ==
    /\ mesh_sections = <<>>
    /\ material_buffer = <<>>
    /\ published = <<>>

NoWrite == [buffer |-> "none"]

\* the application not started
AppIdle ==
    /\ app = [pc |-> "off"]
    /\ renderer = [active_frame_index |-> 0]
    /\ gpu = <<>>
    /\ host_write = NoWrite

GeoIdle ==
    /\ geo_instances = <<>>
    /\ blas_built = <<>>

\* a pool no one has used
PoolIdle ==
    /\ semaphore_pool = SemaphorePool_new
    /\ requested = NoRequests

LayoutIdle ==
    /\ layout = DescriptorSetLayout_new
    /\ handed = NoneHanded

\* the parts of the model no specification but their own moves
RestIdle == GeoIdle /\ PoolIdle /\ LayoutIdle

Init ==
    /\ pc = "input"
    /\ scene \in Scenes
    /\ scene_description = NoScene
    /\ panic = "none"
    /\ last_call = NoCall
    /\ calls = 0
    /\ device = <<>>
    /\ steps = <<>>
    /\ SbtIdle
    /\ PackIdle
    /\ CallerIdle
    /\ DescIdle
    /\ AppIdle
    /\ RestIdle

Call_from_scene ==
    /\ pc = "input"
    /\ LET p == from_meshes_panic(scene)
       IN  /\ panic' = p
           /\ pc' = IF p = "none" THEN "ready" ELSE "panicked"
           /\ scene_description' = IF p = "none" THEN from_meshes(scene) ELSE NoScene
    /\ last_call' = [op |-> "from_scene"]
    /\ device' = from_meshes_calls(scene)
    /\ steps' = from_meshes_steps(scene)
    /\ UNCHANGED <<scene, calls, sbtVars, packVars, callerVars, descVars, appVars, geoVars, poolVars, layoutVars>>

Finish(st, call) ==
    /\ scene_description' = st.self
    /\ panic' = st.panic
    /\ pc' = IF st.panic = "none" THEN "ready" ELSE "panicked"
    /\ last_call' = call
    /\ calls' = calls + 1
    /\ UNCHANGED <<scene, steps, sbtVars, packVars, callerVars, descVars, appVars, geoVars, poolVars, layoutVars>>

Callable == pc = "ready" /\ calls < MaxCalls

Current == [self |-> scene_description, panic |-> "none"]

Call_blas_transform ==
    /\ Callable
    /\ \E transform \in Transforms, index \in 0..Len(scene_description.blas) :
          Finish(blas_transform(Current, transform, index),
                 [op |-> "blas_transform", transform |-> transform, index |-> index])
    /\ UNCHANGED device

\* a slice of the given length whose neighbours differ
TransformSlice(start, len) ==
    [k \in 1..len |-> TransformList[((start + k) % Len(TransformList)) + 1]]

Call_blas_transforms ==
    /\ Callable
    /\ \E start \in 1..2, len \in 0..Len(scene_description.blas) :
          LET transforms == TransformSlice(start, len)
          IN  Finish(blas_transforms(Current, transforms),
                     [op |-> "blas_transforms", transforms |-> transforms])
    /\ UNCHANGED device

\* the command buffer a caller records a frame into
FrameCmds == {"frame_cmd"}

Call_tlas_regenerate ==
    /\ Callable
    /\ \E cmd \in FrameCmds :
          /\ Finish([self |-> tlas_regenerate(scene_description), panic |-> "none"],
                    [op |-> "tlas_regenerate", cmd |-> cmd])
          /\ device' = device \o tlas_regenerate_calls(scene_description, cmd)

Call_update ==
    /\ Callable
    /\ Finish([self |-> update(scene_description), panic |-> "none"],
              [op |-> "update"])
    /\ UNCHANGED device

Next ==
    \/ Call_from_scene
    \/ Call_blas_transform
    \/ Call_blas_transforms
    \/ Call_tlas_regenerate
    \/ Call_update

Spec == Init /\ [][Next]_vars

(* ------------- BLAS and TLAS used directly: actions -------------------- *)

MaxDirect == 4

\* the command buffers begin_single_time_cmd hands to the caller, in order
CallerCmds == <<"caller_cmd_0", "caller_cmd_1">>

DirectCallable == caller.calls < MaxDirect

Recording == caller.recording # <<>>

\* the structure handles the driver gives to the caller's objects
CallerHandle == 100 + Len(caller.blas) + Len(caller.tlas) + 1

Call_begin_single_time_cmd ==
    /\ DirectCallable
    /\ ~Recording
    /\ caller.begun < Len(CallerCmds)
    /\ LET cmd == CallerCmds[caller.begun + 1]
       IN  /\ caller' = [caller EXCEPT !.begun = @ + 1, !.recording = <<cmd>>,
                                        !.calls = @ + 1]
           /\ device' = device \o begin_single_time_cmd(cmd)
    /\ UNCHANGED <<pc, scene, scene_description, panic, last_call, calls, steps>>
    /\ UNCHANGED <<sbtVars, packVars, descVars, appVars, geoVars, poolVars, layoutVars>>

Call_end_single_time_cmd ==
    /\ DirectCallable
    /\ Recording
    /\ caller' = [caller EXCEPT !.recording = <<>>, !.calls = @ + 1]
    /\ device' = device \o end_single_time_cmd(caller.recording[1])
    /\ UNCHANGED <<pc, scene, scene_description, panic, last_call, calls, steps>>
    /\ UNCHANGED <<sbtVars, packVars, descVars, appVars, geoVars, poolVars, layoutVars>>

Call_BLAS_new ==
    /\ DirectCallable
    /\ Recording
    /\ caller' = [caller EXCEPT !.blas = Append(@, BLAS_new(CallerHandle, Mat4_identity)),
                                !.calls = @ + 1]
    /\ device' = device \o BLAS_new_calls(caller.recording[1], CallerHandle)
    /\ UNCHANGED <<pc, scene, scene_description, panic, last_call, calls, steps>>
    /\ UNCHANGED <<sbtVars, packVars, descVars, appVars, geoVars, poolVars, layoutVars>>

\* TLAS::new over the caller's BLAS; an empty slice stops at Buffer::new
Call_TLAS_new ==
    /\ DirectCallable
    /\ Recording
    /\ caller.tlas = <<>>
    /\ caller.blas # <<>>
    /\ caller' = [caller EXCEPT !.tlas = << TLAS_new(CallerHandle, caller.blas) >>,
                                !.calls = @ + 1]
    /\ device' = device \o TLAS_new_calls(caller.recording[1], CallerHandle, caller.blas)
    /\ UNCHANGED <<pc, scene, scene_description, panic, last_call, calls, steps>>
    /\ UNCHANGED <<sbtVars, packVars, descVars, appVars, geoVars, poolVars, layoutVars>>

\* TLAS::generate is public: the caller chooses previous and update_only
Call_TLAS_generate ==
    /\ DirectCallable
    /\ Recording
    /\ caller.tlas # <<>>
    /\ \E previous \in {NullHandle, caller.tlas[1].handle}, update_only \in BOOLEAN :
          /\ caller' = [caller EXCEPT !.tlas = << TLAS_generate(caller.tlas[1], caller.blas) >>,
                                      !.calls = @ + 1]
          /\ device' = device \o TLAS_generate_calls(caller.tlas[1], caller.recording[1],
                                                     caller.blas, previous, update_only)
    /\ UNCHANGED <<pc, scene, scene_description, panic, last_call, calls, steps>>
    /\ UNCHANGED <<sbtVars, packVars, descVars, appVars, geoVars, poolVars, layoutVars>>

\* scenes of unmoved meshes of one primitive section each: the transforms and
\* the split into meshes play no part here
AccelScenes ==
    {sc \in Scenes : \A m \in 1..Len(sc) :
        sc[m].transform = Mat4_identity /\ sc[m].primitive_sections = 1}

InitAccel ==
    /\ pc = "input"
    /\ scene \in AccelScenes
    /\ scene_description = NoScene
    /\ panic = "none"
    /\ last_call = NoCall
    /\ calls = 0
    /\ device = <<>>
    /\ steps = <<>>
    /\ SbtIdle
    /\ PackIdle
    /\ CallerIdle
    /\ DescIdle
    /\ AppIdle
    /\ RestIdle

NextAccel ==
    \/ Call_from_scene
    \/ Call_tlas_regenerate
    \/ Call_begin_single_time_cmd
    \/ Call_BLAS_new
    \/ Call_TLAS_new
    \/ Call_TLAS_generate
    \/ Call_end_single_time_cmd

SpecAccel == InitAccel /\ [][NextAccel]_vars

(* ---------------- from_meshes: the descriptor lists -------------------- *)

MaxSections == 2

\* a PrimitiveSection: indices is None (<<>>) or Some; every section tried has
\* a material index
Sections == {[indices |-> <<>>], [indices |-> <<"indices">>]}

\* load_model gives a mesh index_buffer and index_storage exactly when one of
\* its primitives has indices
index_storage(mesh) ==
    IF \E j \in 1..Len(mesh) : mesh[j].indices # <<>> THEN <<"index_storage">> ELSE <<>>

\* the meshes tried, each the sequence of its primitive sections
DescMeshes == SeqsUpTo(SeqsUpTo(Sections, MaxSections), MaxMeshes)

\* buffer.get_descriptor_info_offset(..): the region of the buffer that holds
\* section j of mesh i (both from 0)
get_vertex_descriptor(i, j) == [buffer |-> "vertex_buffer", mesh |-> i, section |-> j]
get_index_descriptor(i, j) == [buffer |-> "index_storage", mesh |-> i, section |-> j]
get_material_descriptor(i, j) == [buffer |-> "material_buffer", mesh |-> i, section |-> j]

\* the body of the loop over mesh.primitive_sections for section j of mesh i,
\* as far as the descriptor lists go
PushDescriptors(acc, mesh, material, i, j) ==
    IF acc.panic # "none" THEN acc
    ELSE IF index_storage(mesh) # <<>> /\ mesh[j + 1].indices = <<>>
    THEN [acc EXCEPT !.panic = "get_index_count: unwrap on None"]
    ELSE [acc EXCEPT
             !.vertex_descriptors = Append(@, get_vertex_descriptor(i, j)),
             !.index_descriptors =
                 IF index_storage(mesh) # <<>> THEN Append(@, get_index_descriptor(i, j))
                 ELSE @,
             !.mat_descriptors =
                 IF material # <<>> THEN Append(@, get_material_descriptor(i, j))
                 ELSE @,
             !.primitives = @ + 1]

RECURSIVE ForSections(_, _, _, _, _)
ForSections(acc, mesh, material, i, j) ==
    IF j >= Len(mesh) THEN acc
    ELSE ForSections(PushDescriptors(acc, mesh, material, i, j), mesh, material, i, j + 1)

RECURSIVE ForDescriptors(_, _, _, _)
ForDescriptors(acc, ms, material, i) ==
    IF i >= Len(ms) THEN acc
    ELSE ForDescriptors(ForSections(acc, ms[i + 1], material, i, 0), ms, material, i + 1)

\* the descriptor lists from_meshes publishes, or the panic that stops it:
\* TLAS::new panics on a scene without primitives
from_meshes_descriptors(ms, material) ==
    LET acc == ForDescriptors([vertex_descriptors |-> <<>>, index_descriptors |-> <<>>,
                               mat_descriptors |-> <<>>, primitives |-> 0,
                               panic |-> "none"], ms, material, 0)
    IN  IF acc.panic = "none" /\ acc.primitives = 0
        THEN [acc EXCEPT !.panic = "Buffer::new: device_size == 0"]
        ELSE acc

InitDesc ==
    /\ SceneIdle
    /\ SbtIdle
    /\ PackIdle
    /\ CallerIdle
    /\ AppIdle
    /\ RestIdle
    /\ mesh_sections \in DescMeshes
    /\ material_buffer \in {<<>>, <<"material_buffer">>}
    /\ published = <<>>

Call_from_meshes ==
    /\ published = <<>>
    /\ published' = << from_meshes_descriptors(mesh_sections, material_buffer) >>
    /\ UNCHANGED <<mesh_sections, material_buffer>>
    /\ UNCHANGED <<sceneVars, sbtVars, packVars, callerVars, appVars, geoVars, poolVars, layoutVars>>

NextDesc == Call_from_meshes

SpecDesc == InitDesc /\ [][NextDesc]_vars

(* ------------- examples/5-pathtrace.rs on the AppRenderer -------------- *)

\* swapchain.get_image_count(): the frames of the renderer
FrameCount == 2
\* the frames rendered in a run
MaxFrames == 3
\* the hot-reloads in a run
MaxReloads == 1

Frames == 0..(FrameCount - 1)

\* build_pipeline_sbt: a new pipeline, and the shader binding table generated
\* from pipeline.handle()
build_pipeline_sbt(handle) ==
    [pipeline |-> handle, sbt |-> [pipeline |-> handle]]

\* a reload that replaces the pipeline and keeps the old table
window_event_KeyR_PipelineOnly(app_data, handle) ==
    [app_data EXCEPT !.pipeline = build_pipeline_sbt(handle).pipeline,
                     !.next_pipeline = handle + 1,
                     !.reloads = @ + 1]

\* window_event on key R, after queue_wait_idle
window_event_KeyR(app_data, handle) ==
    LET built == build_pipeline_sbt(handle)
    IN  [app_data EXCEPT !.pipeline = built.pipeline,
                         !.sbt = built.sbt,
                         !.next_pipeline = handle + 1,
                         !.reloads = @ + 1]

\* what the commands of a frame read on the device: the refit reads the TLAS
\* instance buffer, the hit shaders read the SceneInstance buffer
FrameReads == {"tlas.instance_buffer", "instances_buffer"}

\* the command buffer render records for frame i, as submitted
FrameCommands(app_data, i) ==
    [frame |-> i, state |-> "pending", pipeline |-> app_data.pipeline,
     sbt |-> app_data.sbt, reads |-> FrameReads]

\* the submitted frames that read the buffer and have not finished
InFlight(buffer) == {gpu[k].frame : k \in {j \in 1..Len(gpu) : buffer \in gpu[j].reads}}

\* the state setup leaves: AppRenderer::new creates the fences signaled
InitApp ==
    /\ SceneIdle
    /\ SbtIdle
    /\ PackIdle
    /\ CallerIdle
    /\ DescIdle
    /\ app = [pc |-> "idle", pipeline |-> build_pipeline_sbt(0).pipeline,
               sbt |-> build_pipeline_sbt(0).sbt, next_pipeline |-> 1,
               reloads |-> 0, rendered |-> 0, semaphore |-> NullHandle]
    /\ renderer = [active_frame_index |-> 0,
                   in_flight_fence |-> [i \in Frames |-> TRUE],
                   semaphore_pool |-> [i \in Frames |-> SemaphorePool_new],
                   semaphores_created |-> 0,
                   queries_available |-> FALSE]
    /\ gpu = <<>>
    /\ host_write = NoWrite
    /\ RestIdle

\* a request on the pool of frame i: the renderer after it and the semaphore
\* returned; create_semaphore gives a handle no semaphore made so far has
frame_request_semaphore(self, i) ==
    LET got == request_semaphore(self.semaphore_pool[i], self.semaphores_created + 1)
    IN  [renderer |-> [self EXCEPT
                          !.semaphore_pool[i] = got.pool,
                          !.semaphores_created =
                              IF got.semaphore = self.semaphores_created + 1
                              THEN self.semaphores_created + 1 ELSE self.semaphores_created],
         semaphore |-> got.semaphore]

\* acquire_next_image when the swapchain hands out image_index: the semaphore
\* comes from the pool of the frame active so far, then the pool of frame
\* image_index is reset and its fence waited for and reset
acquire_next_image(self, image_index) ==
    LET got == frame_request_semaphore(self, self.active_frame_index)
    IN  [renderer |-> [got.renderer EXCEPT
                          !.active_frame_index = image_index,
                          !.semaphore_pool[image_index] = SemaphorePool_reset(@),
                          !.in_flight_fence[image_index] = FALSE],
         semaphore |-> got.semaphore]

\* submit_frame: the rendering-complete semaphore comes from the pool of the
\* active frame
submit_frame(self) == frame_request_semaphore(self, self.active_frame_index)

\* render, up to the end of acquire_next_image: the swapchain hands out image
\* i, and wait_for_and_reset_fence returns once frame i's fence is signaled
Render_acquire_next_image ==
    /\ app.pc = "idle"
    /\ app.rendered < MaxFrames
    /\ \E i \in Frames :
          /\ renderer.in_flight_fence[i]
          /\ renderer' = acquire_next_image(renderer, i).renderer
          /\ app' = [app EXCEPT !.pc = "acquired",
                                !.semaphore = acquire_next_image(renderer, i).semaphore]
    /\ UNCHANGED <<gpu, host_write, sceneVars, sbtVars, packVars, callerVars, descVars, geoVars, poolVars, layoutVars>>

\* render, from begin_command_buffer to submit_frame and present_frame:
\* tlas_regenerate writes the instance buffer from the CPU and records the
\* refit; the command buffer is submitted with the frame's fence
Render_submit ==
    /\ app.pc = "acquired"
    /\ host_write' = [buffer |-> "tlas.instance_buffer",
                      frame |-> renderer.active_frame_index,
                      in_flight |-> InFlight("tlas.instance_buffer")]
    /\ gpu' = Append(gpu, FrameCommands(app, renderer.active_frame_index)
                           @@ [wait_semaphore |-> app.semaphore,
                               signal_semaphore |-> submit_frame(renderer).semaphore])
    /\ renderer' = submit_frame(renderer).renderer
    /\ app' = [app EXCEPT !.pc = "submitted"]
    /\ UNCHANGED <<sceneVars, sbtVars, packVars, callerVars, descVars, geoVars, poolVars, layoutVars>>

\* render, the end of submit_and_present: get_query_pool_results with WAIT
\* returns once the two timestamp queries are available
Render_get_query_pool_results ==
    /\ app.pc = "submitted"
    /\ renderer.queries_available
    /\ app' = [app EXCEPT !.pc = "idle", !.rendered = @ + 1]
    /\ UNCHANGED <<renderer, gpu, host_write>>
    /\ UNCHANGED <<sceneVars, sbtVars, packVars, callerVars, descVars, geoVars, poolVars, layoutVars>>

\* the queue starts the oldest command buffer: cmd_reset_query_pool makes the
\* queries unavailable
Gpu_begin ==
    /\ gpu # <<>>
    /\ gpu[1].state = "pending"
    /\ gpu' = [gpu EXCEPT ![1].state = "executing"]
    /\ renderer' = [renderer EXCEPT !.queries_available = FALSE]
    /\ UNCHANGED <<app, host_write, sceneVars, sbtVars, packVars, callerVars, descVars, geoVars, poolVars, layoutVars>>

\* the queue finishes it: the second timestamp is written and the fence of
\* the frame is signaled
Gpu_end ==
    /\ gpu # <<>>
    /\ gpu[1].state = "executing"
    /\ gpu' = Tail(gpu)
    /\ renderer' = [renderer EXCEPT !.queries_available = TRUE,
                                    !.in_flight_fence[gpu[1].frame] = TRUE]
    /\ UNCHANGED <<app, host_write, sceneVars, sbtVars, packVars, callerVars, descVars, geoVars, poolVars, layoutVars>>

\* window_event, key R pressed: queue_wait_idle returns once the queue is
\* empty, then the pipeline and the table are rebuilt
Window_event_KeyR ==
    /\ app.pc = "idle"
    /\ app.reloads < MaxReloads
    /\ gpu = <<>>
    /\ app' = window_event_KeyR(app, app.next_pipeline)
    /\ UNCHANGED <<renderer, gpu, host_write>>
    /\ UNCHANGED <<sceneVars, sbtVars, packVars, callerVars, descVars, geoVars, poolVars, layoutVars>>

NextApp ==
    \/ Render_acquire_next_image
    \/ Render_submit
    \/ Render_get_query_pool_results
    \/ Gpu_begin
    \/ Gpu_end
    \/ Window_event_KeyR

SpecApp == InitApp /\ [][NextApp]_vars

(* ----------------- BLAS::new on its geometry list: actions ------------- *)

MaxGeometries == 2

\* a GeometryInstance, as far as its index fields go: None is <<>>
Geometries ==
    [index_buffer : {<<>>, <<"index_buffer">>},
     index_count : {<<>>, <<"index_count">>},
     index_offset : {<<>>, <<"index_offset">>}]

\* the sizes get_acceleration_structure_memory_requirements may report for the
\* structure and for its scratch memory
MemoryRequirements == {[size |-> s, scratch |-> 64] : s \in {0, 64}}

\* the match on geo.index_buffer: with Some(_) the builder unwraps
\* index_buffer, index_offset and index_count, in this order
geo_triangles(geo) ==
    IF geo.index_buffer = <<>> THEN "none"
    ELSE IF geo.index_offset = <<>> THEN "index_offset: unwrap on None"
    ELSE IF geo.index_count = <<>> THEN "index_count: unwrap on None"
    ELSE "none"

\* for ref geo in geo_intances: the geometries pushed, or the first panic
RECURSIVE ForGeometries(_, _)
ForGeometries(geo_intances, k) ==
    IF k > Len(geo_intances) THEN [geometries |-> Len(geo_intances), panic |-> "none"]
    ELSE IF geo_triangles(geo_intances[k]) # "none"
    THEN [geometries |-> k - 1, panic |-> geo_triangles(geo_intances[k])]
    ELSE ForGeometries(geo_intances, k + 1)

\* BLAS::new from its first statement on: the loop over the geometries,
\* create_accel_struct, the two Buffer::new with their assertion on the size,
\* then the bind, the build and the barrier
BLAS_new_run(geo_intances, cmd, handle, memory) ==
    LET loop == ForGeometries(geo_intances, 1)
        created == << create_acceleration_structure("BOTTOM_LEVEL", {"PREFER_FAST_TRACE"},
                                                    0, handle) >>
    IN  IF loop.panic # "none"
        THEN [panic |-> loop.panic, geometries |-> loop.geometries, calls |-> <<>>]
        ELSE IF memory.size = 0 \/ memory.scratch = 0
        THEN [panic |-> "Buffer::new: device_size == 0", geometries |-> loop.geometries,
              calls |-> created]
        ELSE [panic |-> "none", geometries |-> loop.geometries,
              calls |-> BLAS_new_calls(cmd, handle)]

InitBlas ==
    /\ SceneIdle
    /\ SbtIdle
    /\ PackIdle
    /\ CallerIdle
    /\ DescIdle
    /\ AppIdle
    /\ PoolIdle
    /\ LayoutIdle
    /\ geo_instances \in SeqsUpTo(Geometries, MaxGeometries)
    /\ blas_built = <<>>

Call_BLAS_new_geometries ==
    /\ blas_built = <<>>
    /\ \E memory \in MemoryRequirements :
          blas_built' = << BLAS_new_run(geo_instances, SingleTimeCmd, 1, memory) >>
    /\ UNCHANGED geo_instances
    /\ UNCHANGED <<sceneVars, sbtVars, packVars, callerVars, descVars, appVars>>
    /\ UNCHANGED <<poolVars, layoutVars>>

NextBlas == Call_BLAS_new_geometries

SpecBlas == InitBlas /\ [][NextBlas]_vars

(* ------------------------ SemaphorePool: actions ----------------------- *)

MaxPoolCalls == 10

InitPool ==
    /\ SceneIdle
    /\ SbtIdle
    /\ PackIdle
    /\ CallerIdle
    /\ DescIdle
    /\ AppIdle
    /\ GeoIdle
    /\ LayoutIdle
    /\ semaphore_pool = SemaphorePool_new
    /\ requested = NoRequests

\* create_semaphore gives a handle no semaphore of the pool has
Call_request_semaphore ==
    /\ requested.calls < MaxPoolCalls
    /\ LET got == request_semaphore(semaphore_pool, Len(semaphore_pool.semaphores) + 1)
       IN  /\ semaphore_pool' = got.pool
           /\ requested' = [semaphores |-> Append(requested.semaphores, got.semaphore),
                            calls |-> requested.calls + 1]
    /\ UNCHANGED <<sceneVars, sbtVars, packVars, callerVars, descVars, appVars>>
    /\ UNCHANGED <<geoVars, layoutVars>>

Call_reset ==
    /\ requested.calls < MaxPoolCalls
    /\ semaphore_pool' = SemaphorePool_reset(semaphore_pool)
    /\ requested' = [semaphores |-> <<>>, calls |-> requested.calls + 1]
    /\ UNCHANGED <<sceneVars, sbtVars, packVars, callerVars, descVars, appVars>>
    /\ UNCHANGED <<geoVars, layoutVars>>

NextPool ==
    \/ Call_request_semaphore
    \/ Call_reset

SpecPool == InitPool /\ [][NextPool]_vars

(* --------------------- DescriptorSetLayout: actions -------------------- *)

MaxLayoutCalls == 4

\* the DescriptorSetInfo values a caller asks sets for
SetInfos == {"info_a", "info_b", "info_c"}

InitLayout ==
    /\ SceneIdle
    /\ SbtIdle
    /\ PackIdle
    /\ CallerIdle
    /\ DescIdle
    /\ AppIdle
    /\ GeoIdle
    /\ PoolIdle
    /\ layout = DescriptorSetLayout_new
    /\ handed = NoneHanded

Call_get_or_create ==
    /\ handed.calls < MaxLayoutCalls
    /\ \E set_info \in SetInfos :
          LET got == get_or_create(layout, set_info)
          IN  /\ layout' = got.layout
              /\ handed' = [op |-> "get_or_create", info |-> set_info, set |-> got.set,
                            calls |-> handed.calls + 1, resets |-> handed.resets]
    /\ UNCHANGED <<sceneVars, sbtVars, packVars, callerVars, descVars, appVars>>
    /\ UNCHANGED <<geoVars, poolVars>>

Call_reset_pool ==
    /\ handed.calls < MaxLayoutCalls
    /\ layout' = reset_pool(layout)
    /\ handed' = [op |-> "reset_pool", calls |-> handed.calls + 1,
                  resets |-> handed.resets + 1]
    /\ UNCHANGED <<sceneVars, sbtVars, packVars, callerVars, descVars, appVars>>
    /\ UNCHANGED <<geoVars, poolVars>>

NextLayout ==
    \/ Call_get_or_create
    \/ Call_reset_pool

SpecLayout == InitLayout /\ [][NextLayout]_vars

(* -------------------- ShaderBindingTable: actions ---------------------- *)

MaxGroups == 2

\* shader-group indices a caller registers
ShaderIndices == {0, 1}

\* (shader_group_handle_size, shader_group_base_alignment) of the devices tried
Devices == {[shader_group_handle_size |-> 32, shader_group_base_alignment |-> 64],
            [shader_group_handle_size |-> 8, shader_group_base_alignment |-> 8],
            [shader_group_handle_size |-> 4, shader_group_base_alignment |-> 16]}

InitSBT ==
    /\ SceneIdle
    /\ PackIdle
    /\ properties \in Devices
    /\ info = ShaderBindingTableInfo_default
    /\ sbt = <<>>
    /\ CallerIdle
    /\ DescIdle
    /\ AppIdle
    /\ RestIdle

Call_raygen ==
    /\ sbt = <<>>
    /\ Len(info.raygen_indices) < MaxGroups
    /\ \E index \in ShaderIndices : info' = raygen(info, index)
    /\ UNCHANGED <<properties, sbt, sceneVars, packVars, callerVars, descVars, appVars, geoVars, poolVars, layoutVars>>

Call_miss ==
    /\ sbt = <<>>
    /\ Len(info.miss_indices) < MaxGroups
    /\ \E index \in ShaderIndices : info' = miss(info, index)
    /\ UNCHANGED <<properties, sbt, sceneVars, packVars, callerVars, descVars, appVars, geoVars, poolVars, layoutVars>>

Call_hitgroup ==
    /\ sbt = <<>>
    /\ Len(info.hit_group_indices) < MaxGroups
    /\ \E index \in ShaderIndices : info' = hitgroup(info, index)
    /\ UNCHANGED <<properties, sbt, sceneVars, packVars, callerVars, descVars, appVars, geoVars, poolVars, layoutVars>>

Call_ShaderBindingTable_new ==
    /\ sbt = <<>>
    /\ sbt' = << ShaderBindingTable_new(properties, info) >>
    /\ UNCHANGED <<properties, info, sceneVars, packVars, callerVars, descVars, appVars, geoVars, poolVars, layoutVars>>

NextSBT ==
    \/ Call_raygen
    \/ Call_miss
    \/ Call_hitgroup
    \/ Call_ShaderBindingTable_new

SpecSBT == InitSBT /\ [][NextSBT]_vars

(* -------------------- InstanceDescriptor: actions ---------------------- *)

\* sample u32 values: in and out of the 24-bit range
Ids == {U32(hi, lo) : hi \in {0, 1, 255}, lo \in {0, 1, 5592405, 16777215}}
Masks == {0, 1, 128, 255}
Flags == {U32(hi, lo) : hi \in {0, 1}, lo \in {0, 1, 4, 5, 255, 256}}

InitPack ==
    /\ SceneIdle
    /\ SbtIdle
    /\ args \in [id : Ids, mask : Masks, offset : Ids, flags : Flags]
    /\ descriptor = <<>>
    /\ CallerIdle
    /\ DescIdle
    /\ AppIdle
    /\ RestIdle

Call_InstanceDescriptor_new ==
    /\ descriptor = <<>>
    /\ descriptor' = << InstanceDescriptor_new(<<>>, args.id, args.mask, args.offset,
                                               args.flags, 0) >>
    /\ UNCHANGED <<args, sceneVars, sbtVars, callerVars, descVars, appVars, geoVars, poolVars, layoutVars>>

NextPack == Call_InstanceDescriptor_new

SpecPack == InitPack /\ [][NextPack]_vars

(* ------------------------ SceneDescription: claims --------------------- *)

Ready == pc = "ready"

\* the number of instance indices stored in the map, over all keys
RECURSIVE FlattenedCount(_)
FlattenedCount(map) ==
    IF DOMAIN map = {} THEN 0
    ELSE LET k == CHOOSE x \in DOMAIN map : TRUE
         IN  Len(map[k]) + FlattenedCount([j \in (DOMAIN map) \ {k} |-> map[j]])

\* the matrix product a * b, in column-major storage
MatMul(a, b) ==
    [c \in 1..3 |-> [r \in 1..3 |->
        a[1][r] * b[c][1] + a[2][r] * b[c][2] + a[3][r] * b[c][3]]]

\* it is the inverse-transpose of t: transpose(it) * t is the identity
IsInverseTranspose(it, t) == MatMul(transpose(it), t) = Mat4_identity

\* the set of instance indices a sequence holds
Range(seq) == {seq[k] : k \in 1..Len(seq)}

\* C1: once from_scene has returned for a scene of N primitive sections, there
\* are exactly N BLAS and N SceneInstance records and the SceneInstance buffer
\* holds N elements.
C1_CountsEqualPrimitives ==
    Ready =>
        /\ Len(scene_description.blas) = PrimitiveCount(scene)
        /\ Len(scene_description.instances) = PrimitiveCount(scene)
        /\ scene_description.instances_buffer.element_count = PrimitiveCount(scene)

\* the scenario of the specification: mesh A with 1 primitive, mesh B with 3
C1_Witness ==
    /\ Ready
    /\ Len(scene) = 2
    /\ scene[1].primitive_sections = 1
    /\ scene[2].primitive_sections = 3
    /\ Len(scene_description.blas) = 4
    /\ scene_description.instances_buffer.element_count = 4

\* C2: in every state after construction the instance indices stored in
\* blas_to_instances, counted over all keys, are as many as the SceneInstance
\* records, which are as many as the elements of the SceneInstance buffer.
C2_MapCoversInstances ==
    Ready =>
        /\ FlattenedCount(scene_description.blas_to_instances)
              = Len(scene_description.instances)
        /\ Len(scene_description.instances)
              = scene_description.instances_buffer.element_count

\* C3: a completed blas_transform(T, i) gives BLAS i the transform T, gives every
\* SceneInstance the map lists under i the transform T and the inverse-transpose
\* of T, and changes no other BLAS and no other SceneInstance.
C3_BlasTransformFrame ==
    [][(last_call'.op = "blas_transform" /\ pc' = "ready" /\ calls' = calls + 1) =>
        LET T == last_call'.transform
            i == last_call'.index
            mapped == Range(scene_description.blas_to_instances[i])
            before == scene_description
            after == scene_description'
        IN  /\ Len(after.instances) = Len(before.instances)
            /\ Len(after.blas) = Len(before.blas)
            /\ \A k \in 1..Len(after.instances) :
                  IF (k - 1) \in mapped
                  THEN /\ after.instances[k].transform = T
                       /\ after.instances[k].transform_it = transpose(inverse(T))
                       /\ IsInverseTranspose(after.instances[k].transform_it, T)
                       /\ after.instances[k].id = before.instances[k].id
                  ELSE after.instances[k] = before.instances[k]
            /\ \A j \in 1..Len(after.blas) :
                  IF j = i + 1
                  THEN after.blas[j] = [before.blas[j] EXCEPT !.transform = T]
                  ELSE after.blas[j] = before.blas[j]
            /\ after.blas_to_instances = before.blas_to_instances
    ]_vars

\* the scenario of the specification: blas_transform(translate, 0) on meshes of
\* 1 and 3 primitives changes SceneInstance 0 and leaves 1..3 as loaded
C3_Witness ==
    /\ Ready
    /\ last_call.op = "blas_transform"
    /\ last_call.index = 0
    /\ last_call.transform = TranslateX
    /\ calls = 1
    /\ Len(scene) = 2
    /\ scene[1].primitive_sections = 1
    /\ scene[2].primitive_sections = 3
    /\ scene[1].transform = Mat4_identity
    /\ scene_description.instances[1].transform = TranslateX
    /\ scene_description.instances[1].transform_it # TranslateX
    /\ \A k \in 2..4 : scene_description.instances[k].transform = scene[2].transform

\* C4: SceneInstance k carries the current transform of BLAS k, the BLAS built
\* from the same primitive, after construction and after every transform call.
C4_InstanceMirrorsBlas ==
    Ready =>
        \A k \in 1..Len(scene_description.instances) :
            /\ k <= Len(scene_description.blas)
            /\ scene_description.instances[k].transform
                  = scene_description.blas[k].transform

\* C5: blas_transform with an index below the number of BLAS completes, and
\* blas_transforms given one transform per BLAS completes and leaves BLAS i
\* with transforms[i].
C5_InRangeTransformCompletes ==
    /\ (last_call.op = "blas_transform"
          /\ last_call.index < Len(scene_description.blas)) => panic = "none"
    /\ (last_call.op = "blas_transforms"
          /\ Len(last_call.transforms) = Len(scene_description.blas)) =>
            /\ panic = "none"
            /\ \A k \in 1..Len(scene_description.blas) :
                  scene_description.blas[k].transform = last_call.transforms[k]

(* ----------------------- ShaderBindingTable: claims -------------------- *)

Built == sbt # <<>>

\* the numbers of indices registered through raygen(), miss() and hitgroup()
rg == Len(info.raygen_indices)
rm == Len(info.miss_indices)
rh == Len(info.hit_group_indices)

\* the bytes of the opaque handle of shader group g
Handle(g) == [j \in 1..properties.shader_group_handle_size |-> HandleByte(g, j - 1)]

\* the bytes of slot k (from 0) of a region's buffer
Slot(buffer, region, k) ==
    SubSeq(buffer[1].data, k * region.stride + 1, (k + 1) * region.stride)

\* slot k of the region holds the handle of group first + k, then zeros
HoldsHandles(buffer, region, first, count) ==
    /\ buffer # <<>>
    /\ Len(buffer[1].data) = count * region.stride
    /\ \A k \in 0..(count - 1) :
          LET slot == Slot(buffer, region, k)
          IN  /\ Len(slot) >= properties.shader_group_handle_size
              /\ SubSeq(slot, 1, properties.shader_group_handle_size) = Handle(first + k)
              /\ \A j \in (properties.shader_group_handle_size + 1)..Len(slot) :
                    slot[j] = 0

\* C6: each region's size is its stride times the number of indices registered
\* for that region: rg for raygen, rm for miss, rh for hit groups.
C6_RegionSizes ==
    Built =>
        /\ sbt[1].raygen_sbt_address.size = sbt[1].raygen_sbt_address.stride * rg
        /\ sbt[1].miss_sbt_address.size = sbt[1].miss_sbt_address.stride * rm
        /\ sbt[1].hit_sbt_address.size = sbt[1].hit_sbt_address.stride * rh

AlignedStride(region) ==
    /\ region.stride
          = align_up(properties.shader_group_handle_size,
                     properties.shader_group_base_alignment)
    /\ region.stride >= properties.shader_group_handle_size
    /\ region.stride % properties.shader_group_base_alignment = 0

\* C7: the stride of the raygen, miss and hit-group regions is the handle size
\* rounded up to the alignment; with handle size 32, alignment 64 and 1 raygen,
\* 1 miss and 2 hit groups the region sizes are 64, 64 and 128.
C7_StrideAligned ==
    Built =>
        /\ AlignedStride(sbt[1].raygen_sbt_address)
        /\ AlignedStride(sbt[1].miss_sbt_address)
        /\ AlignedStride(sbt[1].hit_sbt_address)
        /\ (properties.shader_group_handle_size = 32
              /\ properties.shader_group_base_alignment = 64
              /\ rg = 1 /\ rm = 1 /\ rh = 2) =>
                /\ sbt[1].raygen_sbt_address.size = 64
                /\ sbt[1].miss_sbt_address.size = 64
                /\ sbt[1].hit_sbt_address.size = 128

RegionMatchesList(region, buffer, count) ==
    /\ count = 0 => (region.device_address = 0 /\ region.size = 0 /\ buffer = <<>>)
    /\ buffer # <<>> <=> count > 0
    /\ buffer # <<>> => region.device_address = buffer[1].device_address

\* C8: a region whose own index list is empty has address 0, size 0 and no
\* buffer; a region has a buffer exactly when its own index list is not empty;
\* the callable region is always absent.
C8_EmptyRegionAbsent ==
    Built =>
        /\ RegionMatchesList(sbt[1].raygen_sbt_address, sbt[1].raygen_sbt_buffer, rg)
        /\ RegionMatchesList(sbt[1].miss_sbt_address, sbt[1].miss_sbt_buffer, rm)
        /\ RegionMatchesList(sbt[1].hit_sbt_address, sbt[1].hit_sbt_buffer, rh)
        /\ sbt[1].callable_sbt_buffer = <<>>
        /\ sbt[1].callable_sbt_address = [device_address |-> 0, stride |-> 0, size |-> 0]

\* C9: the handles are stored raygen -> miss -> hit groups: slot k of the raygen
\* region holds handle k (k < rg), slot k of the miss region holds handle rg + k
\* (k < rm), slot k of the hit-group region holds handle rg + rm + k (k < rh),
\* and the bytes of a slot after the handle are zero.
C9_HandleOrder ==
    Built =>
        /\ rg > 0 => HoldsHandles(sbt[1].raygen_sbt_buffer, sbt[1].raygen_sbt_address,
                                  0, rg)
        /\ rm > 0 => HoldsHandles(sbt[1].miss_sbt_buffer, sbt[1].miss_sbt_address,
                                  rg, rm)
        /\ rh > 0 => HoldsHandles(sbt[1].hit_sbt_buffer, sbt[1].hit_sbt_address,
                                  rg + rm, rh)

(* ----------------------- InstanceDescriptor: claims -------------------- *)

Packed == descriptor # <<>>

\* id < 2^24, mask < 2^8, offset < 2^24, flags < 2^8
InRange ==
    /\ args.id.hi = 0
    /\ args.mask < 256
    /\ args.offset.hi = 0
    /\ args.flags.hi = 0 /\ args.flags.lo < 256

\* C10: for in-range id, mask, offset and flags the packed words give them back:
\* the low 24 bits of instance_id_and_mask are id and its high 8 bits are mask,
\* the low 24 bits of instance_offset_and_flags are offset and its high 8 bits
\* are flags.
C10_RoundTrip ==
    (Packed /\ InRange) =>
        /\ And32(descriptor[1].instance_id_and_mask, LOW_24_BITS) = args.id
        /\ Shr24(descriptor[1].instance_id_and_mask) = AsU32(args.mask)
        /\ And32(descriptor[1].instance_offset_and_flags, LOW_24_BITS) = args.offset
        /\ Shr24(descriptor[1].instance_offset_and_flags) = args.flags
        /\ descriptor[1].instance_id_and_mask = U32(args.mask, args.id.lo)
        /\ descriptor[1].instance_offset_and_flags = U32(args.flags.lo, args.offset.lo)

C10_Witness ==
    /\ Packed
    /\ InRange
    /\ args.id = U32(0, 16777215)
    /\ args.mask = 255
    /\ args.offset = U32(0, 5592405)
    /\ args.flags = U32(0, 5)
    /\ descriptor[1].instance_id_and_mask = U32(255, 16777215)
    /\ descriptor[1].instance_offset_and_flags = U32(5, 5592405)

\* some argument lies outside its field: id or offset >= 2^24, or flags >= 2^8
OutOfRange ==
    \/ args.id.hi # 0
    \/ args.offset.hi # 0
    \/ args.flags.hi # 0
    \/ args.flags.lo >= 256

\* C11: for any 32-bit id, offset and raw flags the packed words are truncated
\* field by field: the low 24 bits of instance_id_and_mask are id mod 2^24 and
\* its high 8 bits are exactly mask; the low 24 bits of
\* instance_offset_and_flags are offset mod 2^24 and its high 8 bits are exactly
\* flags mod 2^8.  No field leaks into its neighbour.
C11_TruncationKeepsFields ==
    Packed =>
        /\ And32(descriptor[1].instance_id_and_mask, LOW_24_BITS) = U32(0, args.id.lo)
        /\ Shr24(descriptor[1].instance_id_and_mask).lo = args.mask
        /\ And32(descriptor[1].instance_offset_and_flags, LOW_24_BITS)
               = U32(0, args.offset.lo)
        /\ Shr24(descriptor[1].instance_offset_and_flags).lo = args.flags.lo % 256

C11_Witness ==
    /\ Packed
    /\ OutOfRange
    /\ args.id = U32(255, 1)
    /\ args.mask = 128
    /\ args.offset = U32(1, 16777215)
    /\ args.flags = U32(1, 256)
    /\ descriptor[1].instance_id_and_mask = U32(128, 1)
    /\ descriptor[1].instance_offset_and_flags = U32(0, 16777215)

(* ------------------------ the Vulkan calls: claims --------------------- *)

\* the positions of the log that hold a call of the given kind
Calls(kind) == {k \in 1..Len(device) : device[k].call = kind}

\* the positions of the build commands of structures of the given type
Builds(ty) == {k \in Calls("cmd_build_acceleration_structure") : device[k].ty = ty}

\* the positions where a structure of the given type is created
Creations(ty) == {k \in Calls("create_acceleration_structure") : device[k].ty = ty}

\* the first position of a non-empty set of positions
First(positions) == CHOOSE k \in positions : \A j \in positions : k <= j

Constructed == scene_description # NoScene

\* C12: after construction and after any sequence of blas_transform,
\* blas_transforms, tlas_regenerate and update calls, exactly one top-level
\* structure has ever been created and tlas().handle() is its handle.
C12_TlasHandleFixed ==
    Constructed =>
        /\ Cardinality(Creations("TOP_LEVEL")) = 1
        /\ \A k \in Creations("TOP_LEVEL") :
              scene_description.tlas.handle = device[k].handle

C12_Witness ==
    /\ Constructed
    /\ calls >= 2
    /\ last_call.op = "tlas_regenerate"
    /\ \E k \in 1..Len(scene_description.blas) :
          scene_description.blas[k].transform = ShearXY
    /\ Cardinality(Builds("TOP_LEVEL")) >= 2
    /\ scene_description.tlas.handle = device[First(Creations("TOP_LEVEL"))].handle

\* C13: the first top-level build, recorded by TLAS::new, has the update flag
\* false and a null source and comes right after the structure's memory is
\* bound; every later top-level build, recorded by tlas_regenerate, has the
\* update flag true, the TLAS handle as source and destination, the flags the
\* structure was created with (ALLOW_UPDATE among them) and the instance count
\* of the first build; the memory of the TLAS is bound once only.
C13_BuildThenRefits ==
    Constructed =>
        LET tlas == scene_description.tlas
            top == Builds("TOP_LEVEL")
            first == First(top)
            made == device[First(Creations("TOP_LEVEL"))]
        IN  /\ top # {}
            /\ device[first].update = FALSE
            /\ device[first].src = NullHandle
            /\ device[first].dst = tlas.handle
            /\ device[first - 1] = bind_acceleration_structure_memory(tlas.handle)
            /\ \A k \in top \ {first} :
                  /\ device[k].update = TRUE
                  /\ device[k].src = tlas.handle
                  /\ device[k].dst = tlas.handle
                  /\ device[k].flags = device[first].flags
                  /\ device[k].flags = made.flags
                  /\ "ALLOW_UPDATE" \in device[k].flags
                  /\ device[k].instance_count = device[first].instance_count
            /\ Cardinality({k \in Calls("bind_acceleration_structure_memory") :
                                device[k].acceleration_structure = tlas.handle}) = 1

C13_Witness ==
    /\ Constructed
    /\ Cardinality(Builds("TOP_LEVEL")) >= 3
    /\ device[First(Builds("TOP_LEVEL"))].update = FALSE
    /\ device[Len(device) - 1].update = TRUE
    /\ device[Len(device) - 1].src = scene_description.tlas.handle
    /\ device[Len(device) - 1].instance_count = 4

\* C18: in the calls of from_meshes every bottom-level build comes before the
\* top-level build and is recorded into the same command buffer, every
\* structure an instance record of the TLAS refers to has its build among them,
\* and no bottom-level build comes after a top-level build.
C18_TlasBuildLast ==
    Constructed =>
        LET top == Builds("TOP_LEVEL")
            bottom == Builds("BOTTOM_LEVEL")
            data == scene_description.tlas.instance_buffer.data
        IN  /\ top # {}
            /\ \A b \in bottom :
                  /\ \A t \in top : b < t
                  /\ device[b].cmd = device[First(top)].cmd
            /\ \A k \in 1..Len(data) :
                  \E b \in bottom :
                      /\ get_acceleration_structure_handle(device[b].dst)
                            = data[k].acceleration_handle
                      /\ b < First(top)

C18_Witness ==
    /\ Ready
    /\ last_call.op = "from_scene"
    /\ Len(scene) = 2
    /\ Cardinality(Builds("BOTTOM_LEVEL")) = 4
    /\ Cardinality(Builds("TOP_LEVEL")) = 1
    /\ device[Len(device)].call = "free_command_buffers"

\* C19: every build or refit command in the log is followed at once, in the same
\* command buffer, by a pipeline barrier whose source and destination access
\* masks are both acceleration-structure read | write; so a barrier lies
\* between a bottom-level build and any later top-level build or refit.
C19_BarrierAfterBuild ==
    /\ \A k \in Calls("cmd_build_acceleration_structure") :
          /\ k < Len(device)
          /\ device[k + 1].call = "cmd_pipeline_barrier"
          /\ device[k + 1].cmd = device[k].cmd
          /\ device[k + 1].src_access_mask = AS_READ_WRITE
          /\ device[k + 1].dst_access_mask = AS_READ_WRITE
    /\ \A b \in Builds("BOTTOM_LEVEL") : \A t \in Builds("TOP_LEVEL") :
          b < t => \E j \in Calls("cmd_pipeline_barrier") : b < j /\ j < t

C19_Witness ==
    /\ Ready
    /\ last_call.op = "tlas_regenerate"
    /\ Cardinality(Builds("BOTTOM_LEVEL")) >= 2
    /\ device[Len(device) - 1].call = "cmd_build_acceleration_structure"
    /\ device[Len(device) - 1].update = TRUE
    /\ device[Len(device)] = cmd_pipeline_barrier(last_call.cmd, AS_READ_WRITE,
                                                  AS_READ_WRITE)

\* C20: a blas_transform or blas_transforms call, completed or stopped by a
\* panic, makes no Vulkan call and leaves the TLAS instance buffer and the
\* SceneInstance buffer as they were.
C20_TransformHostOnly ==
    [][(last_call'.op \in {"blas_transform", "blas_transforms"}
        /\ calls' = calls + 1) =>
        /\ device' = device
        /\ scene_description'.tlas = scene_description.tlas
        /\ scene_description'.instances_buffer = scene_description.instances_buffer
    ]_vars

\* after blas_transform the records on the CPU differ from both buffers
C20_Witness ==
    /\ Ready
    /\ last_call.op = "blas_transform"
    /\ device = from_meshes_calls(scene)
    /\ \E k \in 1..Len(scene_description.instances) :
          /\ scene_description.instances[k].transform = last_call.transform
          /\ scene_description.instances_buffer.data[k].transform
                # last_call.transform
          /\ scene_description.blas[k].transform = last_call.transform
          /\ scene_description.tlas.instance_buffer.data[k].transform
                # Transmute(transpose(last_call.transform))

\* the refit at position k comes after a build of the same structure whose
\* command buffer was submitted and waited for
AfterCompletedBuild(k) ==
    \E j \in Builds("TOP_LEVEL") :
        /\ ~device[j].update
        /\ device[j].dst = device[k].dst
        /\ \E s \in Calls("queue_submit"), w \in Calls("queue_wait_idle") :
              /\ j < s /\ s < w /\ w < k
              /\ device[s].cmd = device[j].cmd

Refits == {k \in Builds("TOP_LEVEL") : device[k].update}

\* C14: every top-level refit command, whoever recorded it, comes after the
\* build command of the same structure, the submission of that build's command
\* buffer and the wait for the queue.
C14_RefitAfterCompletedBuild ==
    \A k \in Refits : AfterCompletedBuild(k)

\* C14, amended: every refit recorded by SceneDescription::tlas_regenerate comes
\* after the build command of the SceneDescription's TLAS, the submission of
\* that build's command buffer and the wait for the queue; a caller of
\* TLAS::generate is not held to that order.
C14_SceneRefitAfterCompletedBuild ==
    Constructed =>
        \A k \in Refits :
            device[k].dst = scene_description.tlas.handle => AfterCompletedBuild(k)

\* a refit by tlas_regenerate, in order, next to a caller's refit recorded into
\* the command buffer that still holds the build
C14_Witness ==
    /\ Constructed
    /\ \E k \in Refits :
          /\ device[k].dst = scene_description.tlas.handle
          /\ AfterCompletedBuild(k)
    /\ \E k \in Refits :
          /\ device[k].dst # scene_description.tlas.handle
          /\ ~AfterCompletedBuild(k)

(* ----------------------- descriptor lists: claims --------------------- *)

\* the primitives of the meshes in order: <<mesh, section>> pairs, from 0
RECURSIVE PrimitiveOrder(_, _, _)
PrimitiveOrder(ms, i, j) ==
    IF i >= Len(ms) THEN <<>>
    ELSE IF j >= Len(ms[i + 1]) THEN PrimitiveOrder(ms, i + 1, 0)
    ELSE << <<i, j>> >> \o PrimitiveOrder(ms, i, j + 1)

\* the list has one entry per primitive and entry k is a region of primitive k
ByPrimitive(list, order) ==
    /\ Len(list) = Len(order)
    /\ \A k \in 1..Len(list) :
          list[k].mesh = order[k][1] /\ list[k].section = order[k][2]

Published == published # <<>> /\ published[1].panic = "none"

\* C17: when from_meshes returns for meshes of N primitives in all, the vertex,
\* index and material descriptor lists have N entries each and entry k is the
\* region of primitive k, whether the meshes are indexed or not and whether a
\* material buffer is given or not.
C17_DescriptorsByPrimitive ==
    Published =>
        LET order == PrimitiveOrder(mesh_sections, 0, 0)
        IN  /\ ByPrimitive(published[1].vertex_descriptors, order)
            /\ ByPrimitive(published[1].index_descriptors, order)
            /\ ByPrimitive(published[1].mat_descriptors, order)

(* ------------------- the path-tracing example: claims ------------------ *)

\* C15: when the CPU writes the TLAS instance buffer while recording a frame,
\* no frame submitted before whose commands read that buffer is still
\* unfinished on the GPU.
C15_NoOverwriteInFlight ==
    host_write.buffer # "none" => host_write.in_flight = {}

\* C16: the table the application holds was generated from the pipeline it
\* holds, and in every command buffer submitted the table used by
\* cmd_trace_rays was generated from the pipeline bound in it.
C16_SbtOfBoundPipeline ==
    app.pc # "off" =>
        /\ app.sbt.pipeline = app.pipeline
        /\ \A k \in 1..Len(gpu) : gpu[k].sbt.pipeline = gpu[k].pipeline

\* a frame traced after a hot-reload, with the new pipeline and its table
C16_Witness ==
    /\ app.pc # "off"
    /\ app.reloads >= 1
    /\ app.pipeline = 1
    /\ gpu # <<>>
    /\ gpu[1].pipeline = 1
    /\ gpu[1].sbt = build_pipeline_sbt(1).sbt

(* ---------------- tlas_regenerate, update and the records --------------- *)

\* C21: a tlas_regenerate call changes nothing of the SceneDescription but the
\* TLAS instance buffer, so the SceneInstance buffer stays as it was; an update
\* call changes nothing but the SceneInstance buffer, whose contents become the
\* SceneInstance array, so the TLAS instance buffer stays as it was, and it
\* makes no Vulkan call.
C21_RegenerateUpdateDecoupled ==
    [][/\ (last_call'.op = "tlas_regenerate" /\ calls' = calls + 1) =>
            /\ scene_description'.instances_buffer = scene_description.instances_buffer
            /\ scene_description'
                  = [scene_description EXCEPT
                        !.tlas.instance_buffer = scene_description'.tlas.instance_buffer]
       /\ (last_call'.op = "update" /\ calls' = calls + 1) =>
            /\ scene_description'.tlas = scene_description.tlas
            /\ scene_description'.instances_buffer.data = scene_description.instances
            /\ scene_description'
                  = [scene_description EXCEPT
                        !.instances_buffer = scene_description'.instances_buffer]
            /\ device' = device
    ]_vars

\* update after a blas_transform: the SceneInstance buffer has the new
\* transform, the TLAS instance buffer still has the old one
C21_Witness ==
    /\ Ready
    /\ last_call.op = "update"
    /\ calls = 2
    /\ device = from_meshes_calls(scene)
    /\ scene_description.instances_buffer.data = scene_description.instances
    /\ \E k \in 1..Len(scene_description.blas) :
          /\ scene_description.instances_buffer.data[k].transform = ShearXY
          /\ scene_description.blas[k].transform = ShearXY
          /\ scene_description.tlas.instance_buffer.data[k].transform
                # Transmute(transpose(ShearXY))

\* the matrix an instance record stands for: its floats are the rows of the
\* matrix but the last, which is (0, 0, 1)
TransformOf(record) ==
    [c \in 1..3 |-> [r \in 1..3 |->
        IF r < 3 THEN record.transform[(r - 1) * 3 + c]
        ELSE IF c = 3 THEN 1 ELSE 0]]

\* the instance count of the build TLAS::new recorded
BuiltInstanceCount == device[First(Builds("TOP_LEVEL"))].instance_count

\* C22: after tlas_regenerate, whatever blas_transform calls came before it, the
\* TLAS instance buffer holds one record per BLAS, as many as the instance count
\* the TLAS was built with, and record i stands for the current transform of
\* BLAS i and carries the device handle of BLAS i's structure.
C22_RecordsFollowBlas ==
    (Ready /\ last_call.op = "tlas_regenerate") =>
        LET blas == scene_description.blas
            buffer == scene_description.tlas.instance_buffer
        IN  /\ Len(buffer.data) = Len(blas)
            /\ Len(buffer.data) = buffer.element_count
            /\ Len(buffer.data) = BuiltInstanceCount
            /\ \A k \in 1..Len(blas) :
                  /\ TransformOf(buffer.data[k]) = blas[k].transform
                  /\ buffer.data[k].acceleration_handle
                        = get_acceleration_structure_handle(blas[k].handle)

\* a shear given to one BLAS, then the refit: its record stands for the shear
C22_Witness ==
    /\ Ready
    /\ last_call.op = "tlas_regenerate"
    /\ calls = 2
    /\ Len(scene_description.blas) >= 2
    /\ \E k \in 1..Len(scene_description.blas) :
          /\ scene_description.blas[k].transform = ShearXY
          /\ TransformOf(scene_description.tlas.instance_buffer.data[k]) = ShearXY
    /\ \E k \in 1..Len(scene_description.blas) :
          scene_description.blas[k].transform # ShearXY

\* record k (from 1) of the records has instance id k - 1, mask 0xff and the
\* hit-group index of BLAS k as its offset
PackedFrom(records, blas) ==
    /\ Len(records) = Len(blas)
    /\ \A k \in 1..Len(records) :
          /\ And32(records[k].instance_id_and_mask, LOW_24_BITS) = AsU32(k - 1)
          /\ Shr24(records[k].instance_id_and_mask) = AsU32(255)
          /\ And32(records[k].instance_offset_and_flags, LOW_24_BITS)
                = AsU32(blas[k].hit_group_index)

\* C23: in the instance buffer of every TLAS, the one from_meshes builds and
\* one a caller generates from its own BLAS, the record at position i has
\* instance id i, counted from 0, visibility mask 0xff and an offset equal to
\* the hit-group index of the BLAS at position i.
C23_SequentialIdFullMask ==
    /\ Constructed =>
          PackedFrom(scene_description.tlas.instance_buffer.data, scene_description.blas)
    /\ caller.tlas # <<>> =>
          \E n \in 1..Len(caller.blas) :
              PackedFrom(caller.tlas[1].instance_buffer.data, SubSeq(caller.blas, 1, n))

\* two BLAS of a caller and the scene's two: the second records have id 1
C23_Witness ==
    /\ Constructed
    /\ Len(scene_description.blas) = 2
    /\ scene_description.tlas.instance_buffer.data[2].instance_id_and_mask = U32(255, 1)
    /\ caller.tlas # <<>>
    /\ Len(caller.blas) = 2
    /\ Len(caller.tlas[1].instance_buffer.data) = 2
    /\ caller.tlas[1].instance_buffer.data[2].instance_id_and_mask = U32(255, 1)
    /\ caller.tlas[1].instance_buffer.data[2].instance_offset_and_flags.lo = 0

\* the 8 flag bits of a record: the high byte of instance_offset_and_flags
FlagBits(record) == Shr24(record.instance_offset_and_flags).lo

\* C24: every record of the TLAS instance buffer has, among its 8 flag bits,
\* the bit of "triangle cull disable" (1) and the bit of "force opaque" (4).
C24_ForceOpaqueCullDisable ==
    Constructed =>
        \A k \in 1..Len(scene_description.tlas.instance_buffer.data) :
            LET bits == FlagBits(scene_description.tlas.instance_buffer.data[k])
            IN  /\ BitAnd(bits, TRIANGLE_CULL_DISABLE_KHR) = TRIANGLE_CULL_DISABLE_KHR
                /\ BitAnd(bits, 4) = 4

(* --------------------- from_meshes, step by step: claims --------------- *)

\* the positions in steps of the steps of the given kind
Steps(kind) == {k \in 1..Len(steps) : steps[k].call = kind}

\* the positions in steps of the builds of structures of the given type
StepBuilds(ty) == {k \in Steps("cmd_build_acceleration_structure") : steps[k].ty = ty}

\* C25: when from_meshes returns it has begun one command buffer, recorded one
\* bottom-level build per primitive section and then the top-level build into
\* it, and after the last of them, in this order, ended it, submitted it,
\* waited for the queue to be idle and freed it; only then did it write the
\* SceneInstance buffer, and only then did it return.
C25_BuildsSubmittedAndAwaited ==
    (Ready /\ steps # <<>>) =>
        /\ Steps("begin_command_buffer") = {2}
        /\ Cardinality(StepBuilds("BOTTOM_LEVEL")) = PrimitiveCount(scene)
        /\ Cardinality(StepBuilds("TOP_LEVEL")) = 1
        /\ \A b \in Steps("cmd_build_acceleration_structure") :
              /\ steps[b].cmd = steps[2].cmd
              /\ 2 < b
        /\ \E e \in Steps("end_command_buffer"), s \in Steps("queue_submit"),
              w \in Steps("queue_wait_idle"), f \in Steps("free_command_buffers") :
              /\ \A b \in Steps("cmd_build_acceleration_structure") : b < e
              /\ e < s /\ s < w /\ w < f
              /\ steps[e].cmd = steps[2].cmd
              /\ steps[s].cmd = steps[2].cmd
              /\ steps[f].cmd = steps[2].cmd
              /\ \A u \in Steps("Buffer::update") \cup Steps("create_buffer") : f < u
              /\ Steps("return") = {Len(steps)}
              /\ Steps("Buffer::update") # {}

\* a scene of meshes of 1 and 3 primitive sections: five builds, then the
\* submission, the wait, the upload and the return
C25_Witness ==
    /\ Ready
    /\ Len(scene) = 2
    /\ scene[1].primitive_sections = 1
    /\ scene[2].primitive_sections = 3
    /\ Cardinality(Steps("cmd_build_acceleration_structure")) = 5
    /\ steps[Len(steps)].call = "return"
    /\ steps[Len(steps) - 1] = [call |-> "Buffer::update", buffer |-> "instances_buffer"]
    /\ steps[Len(steps) - 3].call = "free_command_buffers"
    /\ steps[Len(steps) - 4].call = "queue_wait_idle"

(* ----------------------- BLAS::new: the build inputs ------------------- *)

\* the geometry declares an index buffer and lacks the index count or offset
LacksIndexRange(geo) ==
    /\ geo.index_buffer # <<>>
    /\ geo.index_count = <<>> \/ geo.index_offset = <<>>

\* C26: BLAS::new given an empty geometry list, or a list with a geometry that
\* declares an index buffer without an index count or an index offset, stops
\* with a panic and records no acceleration-structure build.
C26_BadInputRejected ==
    (/\ blas_built # <<>>
     /\ \/ geo_instances = <<>>
        \/ \E k \in 1..Len(geo_instances) : LacksIndexRange(geo_instances[k])) =>
        /\ blas_built[1].panic # "none"
        /\ \A k \in 1..Len(blas_built[1].calls) :
              blas_built[1].calls[k].call # "cmd_build_acceleration_structure"

(* ----------------- ShaderBindingTable: the index values ---------------- *)

\* the info with every registered index replaced by 0: the same list lengths
ZeroIndices(sbt_info) ==
    [raygen_indices |-> [k \in 1..Len(sbt_info.raygen_indices) |-> 0],
     miss_indices |-> [k \in 1..Len(sbt_info.miss_indices) |-> 0],
     hit_group_indices |-> [k \in 1..Len(sbt_info.hit_group_indices) |-> 0]]

\* C27: the table built from an info is the table built from the info of the
\* same list lengths whose indices are all 0: addresses, strides, sizes and
\* buffer contents are the same, so two infos of equal list lengths give the
\* same table whatever their index values.
C27_IndexValuesIgnored ==
    Built => sbt[1] = ShaderBindingTable_new(properties, ZeroIndices(info))

\* indices other than 0 registered in every list
C27_Witness ==
    /\ Built
    /\ info.raygen_indices = <<1>>
    /\ info.miss_indices = <<1, 0>>
    /\ info.hit_group_indices = <<0, 1>>
    /\ info # ZeroIndices(info)
    /\ sbt[1].hit_sbt_buffer # <<>>
    /\ sbt[1].hit_sbt_address.size = 2 * properties.shader_group_handle_size

(* --------------------------- SemaphorePool: claims --------------------- *)

\* C28: the semaphores request_semaphore returned since the last reset, or
\* since the pool was made, are pairwise distinct.
C28_RequestsDistinct ==
    \A i \in 1..Len(requested.semaphores) : \A j \in 1..Len(requested.semaphores) :
        i # j => requested.semaphores[i] # requested.semaphores[j]

(* ------------------- the semaphores of a frame: claims ----------------- *)

\* C29: in every submitted frame the semaphore the submission signals, the
\* rendering-complete semaphore of submit_frame, is not the semaphore it waits
\* on, the image-acquired semaphore of acquire_next_image.
C29_SignalNotWait ==
    \A k \in 1..Len(gpu) : gpu[k].signal_semaphore # gpu[k].wait_semaphore

(* ------------------------ DescriptorSetLayout: claims ------------------ *)

\* C30: a set get_or_create returns after a reset_pool is a set allocated from
\* the pool since the last reset, not one the reset freed, also when the info
\* was asked for before the reset.
C30_FreshAfterReset ==
    (handed.op = "get_or_create" /\ handed.resets > 0) =>
        handed.set.handle \in layout.pool

====
